---- MODULE Spec2Model ----
(***************************************************************************)
(* ADOS: the Living Knowledge Graph (modules/knowledge_graph.py), the      *)
(* Trust Layer (modules/trust_layer.py) and the intent pipeline            *)
(* (modules/intent_compiler.py, ados_main.py).                             *)
(*                                                                         *)
(* A Python str is a sequence of one-character strings, so that lower(),   *)
(* the "in" substring test, re.split and the \b word searches are computed *)
(* character by character as the interpreter computes them.                *)
(* A float that the code builds from small integers (a Jaccard ratio, the  *)
(* literals 0.9, 0.95 and 0.1) is the exact rational [num, den].           *)
(***************************************************************************)
EXTENDS Integers, Sequences, FiniteSets, TLC

VARIABLES
    kg,          \* the LivingKnowledgeGraph object: metadata, graph, relationships
    dataframes,  \* the dict scan_data_products last returned, held by the caller
    ret,         \* the call of the public API that is returning: name, arguments, result
    llm,         \* TrustLayer.llm: whether a judge is configured
    compiler_ready, \* ADOS.compiler_ready: whether the IntentCompiler could be built
    intent,      \* the handling of a user intention: its stage and its GraphState
    log,         \* what the handling of the intention has validated and executed, in order
    other        \* the session that is not running: its own graph and its DataFrames

vars == <<kg, dataframes, ret, llm, compiler_ready, intent, log, other>>

----------------------------------------------------------------------------
(* str *)

UpperAlpha ==
    <<"A", "B", "C", "D", "E", "F", "G", "H", "I", "J", "K", "L", "M",
      "N", "O", "P", "Q", "R", "S", "T", "U", "V", "W", "X", "Y", "Z">>

LowerAlpha ==
    <<"a", "b", "c", "d", "e", "f", "g", "h", "i", "j", "k", "l", "m",
      "n", "o", "p", "q", "r", "s", "t", "u", "v", "w", "x", "y", "z">>

Digits == {"0", "1", "2", "3", "4", "5", "6", "7", "8", "9"}

Range(s) == {s[i] : i \in DOMAIN s}

\* The lower case of each upper-case letter, the upper case of each lower-case one
to_lower ==
    [c \in Range(UpperAlpha) |-> LowerAlpha[CHOOSE i \in DOMAIN UpperAlpha : UpperAlpha[i] = c]]

to_upper ==
    [c \in Range(LowerAlpha) |-> UpperAlpha[CHOOSE i \in DOMAIN LowerAlpha : LowerAlpha[i] = c]]

lower_char(c) == IF c \in DOMAIN to_lower THEN to_lower[c] ELSE c

upper_char(c) == IF c \in DOMAIN to_upper THEN to_upper[c] ELSE c

\* str.lower()
lower(s) == [i \in 1..Len(s) |-> lower_char(s[i])]

\* str.upper()
upper(s) == [i \in 1..Len(s) |-> upper_char(s[i])]

\* sub in s
contains(s, sub) ==
    \E i \in 0..(Len(s) - Len(sub)) : SubSeq(s, i + 1, i + Len(sub)) = sub

\* s.startswith(prefix)
startswith(s, prefix) ==
    Len(prefix) <= Len(s) /\ SubSeq(s, 1, Len(prefix)) = prefix

\* the regex class \w
WordChars == Range(UpperAlpha) \cup Range(LowerAlpha) \cup Digits \cup {"_"}

is_word_char(c) == c \in WordChars

\* the regex class \s
is_space_char(c) == c \in {" ", "\n", "\t", "\r"}

\* The maximal \w+ runs of s from index i on, left to right, as [from, to]
\* index pairs: the whole words a regex with \b on both sides can match.
RECURSIVE word_runs_from(_, _)
word_runs_from(s, i) ==
    IF i > Len(s) THEN <<>>
    ELSE IF ~is_word_char(s[i]) THEN word_runs_from(s, i + 1)
    ELSE LET stop == IF \E j \in i..Len(s) : ~is_word_char(s[j])
                     THEN (CHOOSE j \in i..Len(s) :
                              /\ ~is_word_char(s[j])
                              /\ \A h \in i..(j - 1) : is_word_char(s[h])) - 1
                     ELSE Len(s)
         IN  <<[from |-> i, to |-> stop]>> \o word_runs_from(s, stop + 1)

word_runs(s) == word_runs_from(s, 1)

words(s) ==
    LET runs == word_runs(s)
    IN  [i \in DOMAIN runs |-> SubSeq(s, runs[i].from, runs[i].to)]

\* re.search(r'KW', s, re.IGNORECASE), the pattern without its two \b
search_anywhere(kw, s) == contains(lower(s), lower(kw))

\* re.search(r'\bKW\b', s, re.IGNORECASE): some maximal word of s is KW in any case
search_word(kw, s) ==
    LET ws == words(s)
        k == lower(kw)
    IN  \E i \in DOMAIN ws : lower(ws[i]) = k

RECURSIVE Concat(_)
Concat(ss) == IF ss = <<>> THEN <<>> ELSE Head(ss) \o Concat(Tail(ss))

----------------------------------------------------------------------------
(* float *)

Rat(n, d) == [num |-> n, den |-> d]
\* x >= y
RatGe(x, y) == x.num * y.den >= y.num * x.den
RatGt(x, y) == x.num * y.den > y.num * x.den
RatEq(x, y) == x.num * y.den = y.num * x.den
RatLe(x, y) == ~RatGt(x, y)
\* the first argument, whatever the second
RatFirst(x, y) == x

\* min(x, y): Python returns the first argument unless the second is smaller
RatMin(x, y) == IF RatGt(x, y) THEN y ELSE x

----------------------------------------------------------------------------
(* dict *)

EmptyDict == <<>>
Put(d, key, val) == [x \in (DOMAIN d) \cup {key} |-> IF x = key THEN val ELSE d[x]]

----------------------------------------------------------------------------
(* modules/knowledge_graph.py *)


\* A DataFrame is the sequence of its columns, each [name, dtype, values]:
\* values is the set of the column's distinct non-null values.
column_names(df) == [i \in DOMAIN df |-> df[i].name]

\* LivingKnowledgeGraph.__init__
new_knowledge_graph ==
    [metadata |-> EmptyDict, nodes |-> EmptyDict, edges |-> EmptyDict,
     relationships |-> <<>>]

\* any(re.match(pattern, column_name.lower()) for pattern in id_patterns)
is_id_column(column_name) ==
    LET name == lower(column_name)
    IN  \/ contains(name, <<"i", "d">>)
        \/ contains(name, <<"k", "e", "y">>)
        \/ contains(name, <<"i", "d", "e", "n", "t", "i", "f", "i", "e", "r">>)
        \/ startswith(name, <<"p", "k", "_">>)
        \/ startswith(name, <<"f", "k", "_">>)

\* ColumnMetadata(...) of one column (sample_values, which nothing reads, is left out)
column_metadata(file_name, col) ==
    [file |-> file_name, column |-> col.name, dtype |-> col.dtype,
     is_id |-> is_id_column(col.name), cardinality |-> Cardinality(col.values)]

\* The body of the loop over parquet_files: metadata[file_name] is rebuilt and the
\* file is added (or its attributes updated) as a node of the graph.
scan_file(k, entry) ==
    [k EXCEPT
       !.metadata = Put(@, entry.file,
                        [c \in Range(column_names(entry.df)) |->
                            column_metadata(entry.file,
                               entry.df[CHOOSE i \in DOMAIN entry.df : entry.df[i].name = c])]),
       !.nodes = Put(@, entry.file,
                     [type |-> "data_product", columns |-> column_names(entry.df)])]

RECURSIVE scan_files(_, _)
scan_files(k, listing) ==
    IF listing = <<>> THEN k
    ELSE scan_files(scan_file(k, Head(listing)), Tail(listing))

\* scan_data_products: listing is what data_dir.glob("*.parquet") finds, in the
\* order it finds it, each file read into its DataFrame. Returns the object after
\* the call and the dict of DataFrames; an empty listing returns early.
scan_data_products(k, listing) ==
    IF listing = <<>>
    THEN [kg |-> k, dataframes |-> <<>>]
    ELSE [kg |-> scan_files(k, listing), dataframes |-> listing]

\* The maximal runs of characters other than "_" and whitespace, from index i on.
is_split_char(c) == c = "_" \/ is_space_char(c)

RECURSIVE pieces_from(_, _)
pieces_from(s, i) ==
    IF i > Len(s) THEN {}
    ELSE IF is_split_char(s[i]) THEN pieces_from(s, i + 1)
    ELSE LET stop == IF \E j \in i..Len(s) : is_split_char(s[j])
                     THEN (CHOOSE j \in i..Len(s) :
                              /\ is_split_char(s[j])
                              /\ \A h \in i..(j - 1) : ~is_split_char(s[h])) - 1
                     ELSE Len(s)
         IN  {SubSeq(s, i, stop)} \cup pieces_from(s, stop + 1)

\* set(re.split(r'[_\s]+', s)): the pieces, and '' when s is empty or starts or
\* ends with a separator
split_parts(s) ==
    pieces_from(s, 1) \cup
    (IF s = <<>> \/ is_split_char(s[1]) \/ is_split_char(s[Len(s)]) THEN {<<>>} ELSE {})

significant_keywords ==
    {<<"i", "d">>,    \* id,
     <<"k", "e", "y">>,    \* key,
     <<"c", "l", "i", "e", "n", "t">>,    \* client,
     <<"p", "r", "o", "d", "u", "i", "t">>,    \* produit,
     <<"p", "r", "o", "d", "u", "c", "t">>,    \* product,
     <<"c", "u", "s", "t", "o", "m", "e", "r">>,    \* customer,
     <<"t", "r", "a", "n", "s", "a", "c", "t", "i", "o", "n">>}    \* transaction

\* _is_potential_join_key looking for the keywords anywhere in the two names
is_potential_join_key_anywhere(col1, col2) ==
    \E kw \in significant_keywords : contains(lower(col1), kw) /\ contains(lower(col2), kw)

is_potential_join_key(col1, col2) ==
    LET parts1 == split_parts(lower(col1))
        parts2 == split_parts(lower(col2))
        common == parts1 \cap parts2
    IN  Cardinality(common \cap significant_keywords) > 0

\* The share of the first column's values that the second column holds
calculate_value_containment(set1, set2) ==
    IF set1 = {} \/ set2 = {} THEN Rat(0, 1)
    ELSE Rat(Cardinality(set1 \cap set2), Cardinality(set1))

\* _calculate_value_overlap on the two columns' sets of distinct non-null values
calculate_value_overlap(set1, set2) ==
    IF set1 = {} \/ set2 = {} THEN Rat(0, 1)
    ELSE LET intersection == Cardinality(set1 \cap set2)
             union == Cardinality(set1 \cup set2)
         IN  IF union > 0 THEN Rat(intersection, union) ELSE Rat(0, 1)

Relationship(sf, sc, tf, tc, type, conf) ==
    [source_file |-> sf, source_column |-> sc, target_file |-> tf,
     target_column |-> tc, relationship_type |-> type, confidence |-> conf]

exact_confidence == Rat(9, 10)
overlap_threshold == Rat(1, 10)
confidence_cap == Rat(95, 100)

\* match_columns with the join-key test tried before the name comparison
match_columns_key_first(file1, c1, file2, c2) ==
    IF is_potential_join_key(c1.name, c2.name)
    THEN LET overlap == calculate_value_overlap(c1.values, c2.values)
         IN  IF RatGt(overlap, overlap_threshold)
             THEN <<Relationship(file1, c1.name, file2, c2.name, "join_key",
                                 RatMin(overlap, confidence_cap))>>
             ELSE <<>>
    ELSE IF c1.name = c2.name
    THEN <<Relationship(file1, c1.name, file2, c2.name, "exact_name_match",
                        exact_confidence)>>
    ELSE <<>>

\* The body of the loop over (col1, col2): the relationships it appends (none or one)
match_columns(file1, c1, file2, c2) ==
    IF c1.name = c2.name
    THEN <<Relationship(file1, c1.name, file2, c2.name, "exact_name_match",
                        exact_confidence)>>
    ELSE IF is_potential_join_key(c1.name, c2.name)
    THEN LET overlap == calculate_value_overlap(c1.values, c2.values)
         IN  IF RatGt(overlap, overlap_threshold)
             THEN <<Relationship(file1, c1.name, file2, c2.name, "join_key",
                                 RatMin(overlap, confidence_cap))>>
             ELSE <<>>
    ELSE <<>>

\* The loops over df1.columns and df2.columns for one pair of files
match_files(e1, e2) ==
    Concat([i \in DOMAIN e1.df |->
              Concat([j \in DOMAIN e2.df |->
                        match_columns(e1.file, e1.df[i], e2.file, e2.df[j])])])

\* The loops over files and files[i+1:]: every relationship appended, in order
discovered(dfs) ==
    Concat([i \in DOMAIN dfs |->
              Concat([j \in DOMAIN dfs |->
                        IF j > i THEN match_files(dfs[i], dfs[j]) ELSE <<>>])])

\* self.graph.add_edge(source_file, target_file, **attrs) on an nx.DiGraph: the
\* edge (u, v) holds one attribute dict, which a second add_edge updates in place;
\* a missing endpoint becomes a node without attributes.
implicit_node == [type |-> "", columns |-> <<>>]

add_edge_to_graph(k, rel) ==
    LET u == rel.source_file
        v == rel.target_file
        with_u == IF u \in DOMAIN k.nodes THEN k.nodes ELSE Put(k.nodes, u, implicit_node)
        with_v == IF v \in DOMAIN with_u THEN with_u ELSE Put(with_u, v, implicit_node)
    IN  [k EXCEPT
           !.nodes = with_v,
           !.edges = Put(@, <<u, v>>,
                         [source_column |-> rel.source_column,
                          target_column |-> rel.target_column,
                          type |-> rel.relationship_type,
                          confidence |-> rel.confidence])]

RECURSIVE add_edges(_, _)
add_edges(k, rels) ==
    IF rels = <<>> THEN k
    ELSE add_edges(add_edge_to_graph(k, Head(rels)), Tail(rels))

\* discover_relationships: self.relationships restarts empty; every relationship
\* found is appended to it and added to the graph as an edge.
discover_relationships(k, dfs) ==
    LET rels == discovered(dfs)
    IN  [add_edges(k, rels) EXCEPT !.relationships = rels]

\* self.graph.to_undirected(): u and v are neighbours when an edge joins them in
\* either direction
adjacent(k, u, v) == <<u, v>> \in DOMAIN k.edges \/ <<v, u>> \in DOMAIN k.edges

\* The simple paths from file1 to file2 in the undirected view
simple_paths(k, file1, file2) ==
    LET N == DOMAIN k.nodes
    IN  {p \in UNION {[1..n -> N] : n \in 1..Cardinality(N)} :
            /\ p[1] = file1
            /\ p[Len(p)] = file2
            /\ \A i, j \in DOMAIN p : i # j => p[i] # p[j]
            /\ \A i \in 1..(Len(p) - 1) : adjacent(k, p[i], p[i + 1])}

\* shortest_paths with weight = 1 - confidence: the most confident route
path_cost(k, p) ==
    LET edge(i) == IF <<p[i], p[i + 1]>> \in DOMAIN k.edges
                   THEN k.edges[<<p[i], p[i + 1]>>] ELSE k.edges[<<p[i + 1], p[i]>>]
        cost(i) == 100 - ((100 * edge(i).confidence.num) \div edge(i).confidence.den)
        sum[i \in 0..(Len(p) - 1)] == IF i = 0 THEN 0 ELSE sum[i - 1] + cost(i)
    IN  sum[Len(p) - 1]

shortest_paths_weighted(k, file1, file2) ==
    LET all == simple_paths(k, file1, file2)
    IN  {p \in all : \A q \in all : path_cost(k, p) <= path_cost(k, q)}

\* What nx.shortest_path(G, source, target) can return without a weight: a path
\* with the fewest edges (which one among several is the library's choice)
shortest_paths(k, file1, file2) ==
    LET all == simple_paths(k, file1, file2)
    IN  {p \in all : \A q \in all : Len(p) <= Len(q)}

ReturnPath(p) == [kind |-> "path", path |-> p, exc |-> ""]
ReturnNone == [kind |-> "none", path |-> <<>>, exc |-> ""]
Raise(e) == [kind |-> "raise", path |-> <<>>, exc |-> e]

\* get_join_path without its except clause
get_join_path_uncaught(k, file1, file2) ==
    IF file1 \notin DOMAIN k.nodes \/ file2 \notin DOMAIN k.nodes
    THEN {Raise("NodeNotFound")}
    ELSE IF shortest_paths(k, file1, file2) = {}
    THEN {Raise("NetworkXNoPath")}
    ELSE {ReturnPath(p) : p \in shortest_paths(k, file1, file2)}

\* get_join_path: the set of outcomes the call can have. nx.shortest_path raises
\* NodeNotFound for an endpoint that is no node, which the except clause does not
\* catch; NetworkXNoPath is caught and becomes None.
get_join_path(k, file1, file2) ==
    IF file1 \notin DOMAIN k.nodes \/ file2 \notin DOMAIN k.nodes
    THEN {Raise("NodeNotFound")}
    ELSE IF shortest_paths(k, file1, file2) = {}
    THEN {ReturnNone}
    ELSE {ReturnPath(p) : p \in shortest_paths(k, file1, file2)}

\* first_join without the break, keeping the last relationship found
first_join_last(k, file1, file2) ==
    LET rels == k.relationships
        hits == {i \in DOMAIN rels :
                    \/ rels[i].source_file = file1 /\ rels[i].target_file = file2
                    \/ rels[i].source_file = file2 /\ rels[i].target_file = file1}
    IN  IF hits = {} THEN <<>>
        ELSE LET rel == rels[CHOOSE i \in hits : \A j \in hits : i >= j]
             IN  <<<<rel.source_file, rel.source_column,
                     rel.target_file, rel.target_column>>>>

\* The inner loop over self.relationships, with its break: the tuple of the first
\* relationship joining file1 and file2 in either direction, or nothing
first_join(k, file1, file2) ==
    LET rels == k.relationships
        hits == {i \in DOMAIN rels :
                    \/ rels[i].source_file = file1 /\ rels[i].target_file = file2
                    \/ rels[i].source_file = file2 /\ rels[i].target_file = file1}
    IN  IF hits = {} THEN <<>>
        ELSE LET rel == rels[CHOOSE i \in hits : \A j \in hits : i <= j]
             IN  <<<<rel.source_file, rel.source_column,
                     rel.target_file, rel.target_column>>>>

get_join_columns_for_path(k, path) ==
    Concat([i \in 1..(Len(path) - 1) |-> first_join(k, path[i], path[i + 1])])

----------------------------------------------------------------------------
(* modules/trust_layer.py *)

s_DELETE == <<"D", "E", "L", "E", "T", "E">>
s_object == <<"o", "b", "j", "e", "c", "t">>
s_int64 == <<"i", "n", "t", "6", "4">>

\* ValidationIssue; a message or a suggestion is its format string and the values
\* formatted into it; suggestion=None is NoSuggestion
Text(fmt, values) == [present |-> TRUE, fmt |-> fmt, values |-> values]
NoSuggestion == [present |-> FALSE, fmt |-> "", values |-> <<>>]

ValidationIssue(severity, rule, message, suggestion) ==
    [severity |-> severity, rule |-> rule, message |-> message,
     suggestion |-> suggestion]

\* _validate_file_existence leaving its loop at the first file it does not find
validate_file_existence_first(k, required_files) ==
    LET available_files == DOMAIN k.metadata
        missing == SelectSeq(required_files, LAMBDA file : file \notin available_files)
    IN  IF missing = <<>> THEN <<>>
        ELSE <<ValidationIssue("critical", "file_existence",
                  Text("Fichier '{file}' introuvable", <<missing[1]>>),
                  Text("Fichiers disponibles: {', '.join(available_files)}",
                       <<available_files>>))>>

\* _validate_file_existence
validate_file_existence(k, required_files) ==
    LET available_files == DOMAIN k.metadata
    IN  Concat([i \in DOMAIN required_files |->
                  IF required_files[i] \notin available_files
                  THEN <<ValidationIssue("critical", "file_existence",
                            Text("Fichier '{file}' introuvable", <<required_files[i]>>),
                            Text("Fichiers disponibles: {', '.join(available_files)}",
                                 <<available_files>>))>>
                  ELSE <<>>])

\* _validate_column_existence without its test `if file not in self.kg.metadata`,
\* an unknown file counting as a file without columns
validate_column_existence_unknown(k, required_columns) ==
    Concat([i \in DOMAIN required_columns |->
              LET file == required_columns[i].file
                  columns == required_columns[i].columns
                  available_columns ==
                      IF file \in DOMAIN k.metadata THEN DOMAIN k.metadata[file] ELSE {}
              IN  Concat([j \in DOMAIN columns |->
                     IF columns[j] \notin available_columns
                     THEN <<ValidationIssue("critical", "column_existence",
                               Text("Colonne '{col}' introuvable dans '{file}'",
                                    <<columns[j], file>>),
                               Text("Colonnes disponibles: {', '.join(available_columns)}",
                                    <<available_columns>>))>>
                     ELSE <<>>])])

\* _validate_column_existence; required_columns is the dict as the sequence of its
\* items [file, columns]
validate_column_existence(k, required_columns) ==
    Concat([i \in DOMAIN required_columns |->
              LET file == required_columns[i].file
                  columns == required_columns[i].columns
              IN  IF file \notin DOMAIN k.metadata THEN <<>>
                  ELSE LET available_columns == DOMAIN k.metadata[file]
                       IN  Concat([j \in DOMAIN columns |->
                              IF columns[j] \notin available_columns
                              THEN <<ValidationIssue("critical", "column_existence",
                                        Text("Colonne '{col}' introuvable dans '{file}'",
                                             <<columns[j], file>>),
                                        Text("Colonnes disponibles: {', '.join(available_columns)}",
                                             <<available_columns>>))>>
                              ELSE <<>>])])

\* sql_query.count('"'), the count of the other quote character
count_double_quotes(sql_query) == Cardinality({i \in DOMAIN sql_query : sql_query[i] = "\""})

\* sql_query.count("'")
count_single_quotes(sql_query) == Cardinality({i \in DOMAIN sql_query : sql_query[i] = "'"})

\* _validate_sql_syntax
validate_sql_syntax(sql_query) ==
    (IF ~search_word(<<"S", "E", "L", "E", "C", "T">>, sql_query)
     THEN <<ValidationIssue("critical", "sql_syntax",
               Text("Requête SQL invalide: SELECT manquant", <<>>), NoSuggestion)>>
     ELSE <<>>)
    \o
    (IF ~search_word(<<"F", "R", "O", "M">>, sql_query)
     THEN <<ValidationIssue("critical", "sql_syntax",
               Text("Requête SQL invalide: FROM manquant", <<>>), NoSuggestion)>>
     ELSE <<>>)
    \o
    (IF count_single_quotes(sql_query) % 2 # 0
     THEN <<ValidationIssue("warning", "sql_syntax",
               Text("Guillemets simples non appariés détectés", <<>>), NoSuggestion)>>
     ELSE <<>>)

\* The end of the maximal \w+ run of s starting at i, or i - 1 when s[i] starts none
word_end(s, i) ==
    IF i > Len(s) \/ ~is_word_char(s[i]) THEN i - 1
    ELSE IF \E j \in i..Len(s) : ~is_word_char(s[j])
    THEN (CHOOSE j \in i..Len(s) :
             ~is_word_char(s[j]) /\ \A h \in i..(j - 1) : is_word_char(s[h])) - 1
    ELSE Len(s)

\* The end of the maximal \s* run of s starting at i (i - 1 when it is empty)
space_end(s, i) ==
    IF i > Len(s) \/ ~is_space_char(s[i]) THEN i - 1
    ELSE IF \E j \in i..Len(s) : ~is_space_char(s[j])
    THEN (CHOOSE j \in i..Len(s) :
             ~is_space_char(s[j]) /\ \A h \in i..(j - 1) : is_space_char(s[h])) - 1
    ELSE Len(s)

is_char_at(s, i, c) == i <= Len(s) /\ s[i] = c

\* One attempt of (\w+)\.(\w+)\s*=\s*(\w+)\.(\w+) at index i of s: whether it
\* matches, the four groups and the index of the last character matched. The
\* attempt goes left to right: e1..e4 are the ends of the four words, b3 is the
\* start of the third; every \w+ and \s* is greedy and nothing shorter can match.
NoMatch == [ok |-> FALSE, groups |-> <<>>, end |-> 0]

match_word4(s, i, e1, e2, b3, e3, e4) ==
    IF e4 >= e3 + 2
    THEN [ok |-> TRUE,
          groups |-> <<SubSeq(s, i, e1), SubSeq(s, e1 + 2, e2),
                       SubSeq(s, b3, e3), SubSeq(s, e3 + 2, e4)>>,
          end |-> e4]
    ELSE NoMatch

match_word3(s, i, e1, e2, b3, e3) ==
    IF e3 >= b3 /\ is_char_at(s, e3 + 1, ".")
    THEN match_word4(s, i, e1, e2, b3, e3, word_end(s, e3 + 2))
    ELSE NoMatch

match_equals(s, i, e1, e2, q) ==
    IF is_char_at(s, q, "=")
    THEN match_word3(s, i, e1, e2, space_end(s, q + 1) + 1,
                     word_end(s, space_end(s, q + 1) + 1))
    ELSE NoMatch

match_word2(s, i, e1, e2) ==
    IF e2 >= e1 + 2 THEN match_equals(s, i, e1, e2, space_end(s, e2 + 1) + 1) ELSE NoMatch

match_word1(s, i, e1) ==
    IF e1 >= i /\ is_char_at(s, e1 + 1, ".")
    THEN match_word2(s, i, e1, word_end(s, e1 + 2))
    ELSE NoMatch

join_match_at(s, i) == match_word1(s, i, word_end(s, i))

\* re.findall(join_pattern, sql_query, re.IGNORECASE): the matches from left to
\* right, the search resuming after each match
RECURSIVE join_matches_from(_, _)
join_matches_next(s, i, m) ==
    IF m.ok THEN <<m.groups>> \o join_matches_from(s, m.end + 1)
    ELSE join_matches_from(s, i + 1)

join_matches_from(s, i) ==
    IF i > Len(s) THEN <<>> ELSE join_matches_next(s, i, join_match_at(s, i))

find_join_conditions(sql_query) == join_matches_from(sql_query, 1)

\* Optional[str]
Some(v) == [present |-> TRUE, value |-> v]
None == [present |-> FALSE, value |-> <<>>]

\* _resolve_alias_to_file
\* _resolve_alias_to_file falling back on the first file instead of None
resolve_alias_or_first(alias, files) ==
    LET hits == {i \in DOMAIN files :
                    \/ contains(lower(files[i]), lower(alias))
                    \/ contains(lower(alias), lower(files[i]))}
    IN  IF files = <<>> THEN None
        ELSE IF hits = {} THEN Some(files[1])
        ELSE Some(files[CHOOSE i \in hits : \A j \in hits : i <= j])

\* _resolve_alias_to_file
resolve_alias_to_file(alias, files) ==
    LET hits == {i \in DOMAIN files :
                    \/ contains(lower(files[i]), lower(alias))
                    \/ contains(lower(alias), lower(files[i]))}
    IN  IF hits = {} THEN None
        ELSE Some(files[CHOOSE i \in hits : \A j \in hits : i <= j])

\* _get_column_type
get_column_type(k, file, column) ==
    IF file \in DOMAIN k.metadata /\ column \in DOMAIN k.metadata[file]
    THEN Some(k.metadata[file][column].dtype)
    ELSE None

numeric_types ==
    {s_int64, <<"i", "n", "t", "3", "2">>, <<"f", "l", "o", "a", "t", "6", "4">>,
     <<"f", "l", "o", "a", "t", "3", "2">>, <<"i", "n", "t">>, <<"f", "l", "o", "a", "t">>}

string_types == {s_object, <<"s", "t", "r", "i", "n", "g">>, <<"s", "t", "r">>}

\* _are_types_compatible reduced to type1 == type2 on the types as declared
are_types_equal(type1, type2) == type1 = type2

\* _are_types_compatible
are_types_compatible(type1, type2) ==
    LET t1 == lower(type1)
        t2 == lower(type2)
    IN  \/ t1 = t2
        \/ t1 \in numeric_types /\ t2 \in numeric_types
        \/ t1 \in string_types /\ t2 \in string_types

\* if file1 and file2: an Optional[str] is false when None and when ''
truthy(opt) == opt.present /\ opt.value # <<>>

\* _validate_join_type_compatibility: the issue of two columns of declared types
type_issue(file1, col1, type1, file2, col2, type2) ==
    IF truthy(type1) /\ truthy(type2) /\ ~are_types_compatible(type1.value, type2.value)
    THEN <<ValidationIssue("critical", "type_compatibility",
              Text("Jointure incompatible: {file1}.{col1} ({type1}) avec {file2}.{col2} ({type2})",
                   <<file1, col1, type1.value, file2, col2, type2.value>>),
              Text("Convertir l'un des types avec CAST()", <<>>))>>
    ELSE <<>>

\* _validate_join_type_compatibility: the issue of two resolved aliases
file_issue(k, file1, col1, file2, col2) ==
    IF truthy(file1) /\ truthy(file2)
    THEN type_issue(file1.value, col1, get_column_type(k, file1.value, col1),
                    file2.value, col2, get_column_type(k, file2.value, col2))
    ELSE <<>>

\* _validate_join_type_compatibility: the issue of one match (alias1, col1, alias2, col2)
match_issue(k, match, required_files) ==
    file_issue(k, resolve_alias_to_file(match[1], required_files), match[2],
                  resolve_alias_to_file(match[3], required_files), match[4])

match_issues(k, matches, required_files) ==
    Concat([i \in DOMAIN matches |-> match_issue(k, matches[i], required_files)])

\* _validate_join_type_compatibility
validate_join_type_compatibility(k, sql_query, required_files) ==
    match_issues(k, find_join_conditions(sql_query), required_files)

dangerous_keywords ==
    <<[pattern |-> <<"D", "R", "O", "P">>, message |-> "DROP détecté - opération destructrice"],
      [pattern |-> s_DELETE, message |-> "DELETE détecté - modification de données"],
      [pattern |-> <<"U", "P", "D", "A", "T", "E">>, message |-> "UPDATE détecté - modification de données"],
      [pattern |-> <<"T", "R", "U", "N", "C", "A", "T", "E">>, message |-> "TRUNCATE détecté - opération destructrice"],
      [pattern |-> <<"I", "N", "S", "E", "R", "T">>, message |-> "INSERT détecté - modification de données"]>>

\* _validate_sql_safety
validate_sql_safety(sql_query) ==
    Concat([i \in DOMAIN dangerous_keywords |->
              IF search_word(dangerous_keywords[i].pattern, sql_query)
              THEN <<ValidationIssue("critical", "sql_safety",
                        Text(dangerous_keywords[i].message, <<>>),
                        Text("Seules les requêtes en lecture seule (SELECT) sont autorisées",
                             <<>>))>>
              ELSE <<>>])

\* str.strip()
strip(s) ==
    LET keep == {i \in DOMAIN s : ~is_space_char(s[i])}
    IN  IF keep = {} THEN <<>>
        ELSE SubSeq(s, CHOOSE i \in keep : \A j \in keep : i <= j,
                       CHOOSE i \in keep : \A j \in keep : i >= j)

\* What chain.invoke gives: a response with its content, or an exception
Response(content) == [kind |-> "response", content |-> content]
JudgeFailure == [kind |-> "raise", content |-> <<>>]

\* _validate_semantic_coherence reporting the failure of the call as an issue
validate_semantic_coherence_reported(has_llm, answer) ==
    IF ~has_llm THEN <<>>
    ELSE IF answer.kind = "raise"
    THEN <<ValidationIssue("critical", "semantic_coherence",
              Text("Validation sémantique impossible: {e}", <<>>), NoSuggestion)>>
    ELSE LET response_text == strip(answer.content)
         IN  IF upper(response_text) # <<"O", "K">>
             THEN <<ValidationIssue("warning", "semantic_coherence",
                       Text("Judge Agent: {response_text}", <<response_text>>),
                       NoSuggestion)>>
             ELSE <<>>

\* _validate_semantic_coherence, for the answer the judge gives to its one call
validate_semantic_coherence(has_llm, answer) ==
    IF ~has_llm THEN <<>>
    ELSE IF answer.kind = "raise" THEN <<>>
    ELSE LET response_text == strip(answer.content)
         IN  IF upper(response_text) # <<"O", "K">>
             THEN <<ValidationIssue("warning", "semantic_coherence",
                       Text("Judge Agent: {response_text}", <<response_text>>),
                       NoSuggestion)>>
             ELSE <<>>

\* validation_passed = not issues
validation_passed_no_issue(issues) == issues = <<>>

\* validation_passed = not has_critical
validation_passed_of(issues) == ~\E i \in DOMAIN issues : issues[i].severity = "critical"

\* validate_execution_plan returning as soon as one rule has reported issues
validate_execution_plan_until_issue(k, has_llm, answer, sql_query, required_files, required_columns) ==
    LET rules ==
            <<validate_file_existence(k, required_files),
              validate_column_existence(k, required_columns),
              validate_sql_syntax(sql_query),
              validate_join_type_compatibility(k, sql_query, required_files),
              validate_sql_safety(sql_query),
              IF has_llm THEN validate_semantic_coherence(has_llm, answer) ELSE <<>> >>
        reporting == {i \in DOMAIN rules : rules[i] # <<>>}
        issues == IF reporting = {} THEN <<>>
                  ELSE rules[CHOOSE i \in reporting : \A j \in reporting : i <= j]
    IN  [passed |-> validation_passed_of(issues), issues |-> issues,
         judge_calls |-> IF has_llm THEN 1 ELSE 0]

\* validate_execution_plan: (validation_passed, issues), and how many times it
\* has run chain.invoke
validate_execution_plan(k, has_llm, answer, sql_query, required_files, required_columns) ==
    LET issues ==
            validate_file_existence(k, required_files)
            \o validate_column_existence(k, required_columns)
            \o validate_sql_syntax(sql_query)
            \o validate_join_type_compatibility(k, sql_query, required_files)
            \o validate_sql_safety(sql_query)
            \o (IF has_llm THEN validate_semantic_coherence(has_llm, answer) ELSE <<>>)
    IN  [passed |-> validation_passed_of(issues), issues |-> issues,
         judge_calls |-> IF has_llm THEN 1 ELSE 0]

\* The lines that generate_audit_report appends for one bucket: its title, then
\* for each issue its line and, where the loop of that bucket has the test
\* `if issue.suggestion`, the line of a suggestion that is neither None nor ''.
\* The lines are written without their pictograms.
bucket_lines(title, bucket, with_suggestion) ==
    IF bucket = <<>> THEN <<>>
    ELSE <<Text(title, <<>>)>> \o
         Concat([i \in DOMAIN bucket |->
            <<Text("   [{issue.rule}] {issue.message}", <<bucket[i].rule, bucket[i].message>>)>>
            \o (IF with_suggestion /\ bucket[i].suggestion.present
                      /\ bucket[i].suggestion.fmt # ""
                 THEN <<Text("      Suggestion: {issue.suggestion}", <<bucket[i].suggestion>>)>>
                 ELSE <<>>)])

\* generate_audit_report: the report as the list of the lines it joins
generate_audit_report(issues) ==
    LET critical == SelectSeq(issues, LAMBDA i : i.severity = "critical")
        warnings == SelectSeq(issues, LAMBDA i : i.severity = "warning")
        infos == SelectSeq(issues, LAMBDA i : i.severity = "info")
    IN  <<Text("=== TRUST LAYER - AUDIT REPORT ===\n", <<>>),
          Text("Erreurs critiques: {len(critical)}", <<Len(critical)>>),
          Text("Avertissements: {len(warnings)}", <<Len(warnings)>>),
          Text("Informations: {len(infos)}\n", <<Len(infos)>>)>>
        \o bucket_lines("\nERREURS CRITIQUES:", critical, TRUE)
        \o bucket_lines("\nAVERTISSEMENTS:", warnings, TRUE)
        \o bucket_lines("\nINFORMATIONS:", infos, FALSE)

----------------------------------------------------------------------------
(* The data products on disk (modules/data_generator.py), cut down to the    *)
(* columns that take part in a relationship.                                 *)

s_customer_domain == <<"c", "u", "s", "t", "o", "m", "e", "r", "_", "d", "o", "m", "a", "i", "n">>
s_sales_domain == <<"s", "a", "l", "e", "s", "_", "d", "o", "m", "a", "i", "n">>
s_logistics_domain == <<"l", "o", "g", "i", "s", "t", "i", "c", "s", "_", "d", "o", "m", "a", "i", "n">>
s_orders_domain == <<"o", "r", "d", "e", "r", "s", "_", "d", "o", "m", "a", "i", "n">>
s_ID_Client == <<"I", "D", "_", "C", "l", "i", "e", "n", "t">>
s_Ref_Client == <<"R", "e", "f", "_", "C", "l", "i", "e", "n", "t">>
s_ID_Produit == <<"I", "D", "_", "P", "r", "o", "d", "u", "i", "t">>
s_Region == <<"R", "e", "g", "i", "o", "n">>

Column(name, dtype, values) == [name |-> name, dtype |-> dtype, values |-> values]

customer_domain ==
    <<Column(s_ID_Client, s_object, {1, 2}), Column(s_Region, s_object, {7})>>

sales_domain ==
    <<Column(s_ID_Client, s_object, {1, 2}), Column(s_Ref_Client, s_int64, {1, 2}),
      Column(s_ID_Produit, s_object, {5})>>

logistics_domain ==
    <<Column(s_ID_Produit, s_object, {5, 6}), Column(s_Region, s_object, {8})>>

Datasets == {s_customer_domain, s_sales_domain, s_logistics_domain}

read_parquet(file_name) ==
    CASE file_name = s_customer_domain -> customer_domain
      [] file_name = s_sales_domain -> sales_domain
      [] file_name = s_logistics_domain -> logistics_domain

\* The names a caller may ask about: the data products and one that never exists
FileNames == Datasets \cup {s_orders_domain}

\* The longest path handed to get_join_columns_for_path
MaxPathLen == 3

\* What the glob can find: any of the files, in any order
Listings ==
    {[i \in DOMAIN names |-> [file |-> names[i], df |-> read_parquet(names[i])]] :
        names \in {p \in UNION {[1..n -> Datasets] : n \in 0..Cardinality(Datasets)} :
                      \A i, j \in DOMAIN p : i # j => p[i] # p[j]}}

PathArgs == UNION {[1..n -> Datasets] : n \in 0..MaxPathLen}

----------------------------------------------------------------------------
(* The life of one LivingKnowledgeGraph *)

Call(op, args, result) == [op |-> op, args |-> args, result |-> result]

\* No call is returning: the caller is between two calls
NoCall == Call("", <<>>, <<>>)

\* DataDiscovery: required_files, and required_columns as the sequence of its items
Manifest(files, columns) == [required_files |-> files, required_columns |-> columns]
Item(file, columns) == [file |-> file, columns |-> columns]

\* JoinPlan
JoinPlan(sql_query) == [sql_query |-> sql_query]

\* ExecutionResult
ExecutionResult(success) == [success |-> success]

\* The None of the three Optional fields of GraphState
NoDiscovery == [present |-> FALSE, value |-> Manifest(<<>>, <<>>)]
NoPlan == [present |-> FALSE, value |-> JoinPlan(<<>>)]
NoExecution == [present |-> FALSE, value |-> ExecutionResult(FALSE)]

\* The handling of an intention: the stage it is at, the validate argument of
\* process_intent, and the GraphState of compile_intent
GraphState(pc, validate, discovery, join_plan, execution_result, validation_passed, messages) ==
    [pc |-> pc, validate |-> validate, discovery |-> discovery, join_plan |-> join_plan,
     execution_result |-> execution_result, validation_passed |-> validation_passed,
     messages |-> messages]

\* Nothing is being handled
Idle == GraphState("idle", TRUE, NoDiscovery, NoPlan, NoExecution, TRUE, <<>>)

\* What cl.user_session holds of a session that has not scanned yet: a
\* LivingKnowledgeGraph of its own and no DataFrames
NewSession == [kg |-> new_knowledge_graph, dataframes |-> <<>>]

InitKG ==
    /\ kg = new_knowledge_graph
    /\ dataframes = <<>>
    /\ ret = NoCall
    /\ llm = FALSE
    /\ compiler_ready = FALSE
    /\ intent = Idle
    /\ log = <<>>
    /\ other = NewSession

\* dataframes = kg.scan_data_products(), the directory holding one of listings
ScanOf(listings) ==
    /\ ret = NoCall
    /\ intent.pc = "idle"
    /\ \E listing \in listings :
          LET r == scan_data_products(kg, listing)
          IN  /\ kg' = r.kg
              /\ dataframes' = r.dataframes
              /\ ret' = Call("scan_data_products", <<listing>>, r.dataframes)
    /\ UNCHANGED <<llm, compiler_ready, intent, log, other>>

Scan == ScanOf(Listings)

\* kg.discover_relationships(dataframes)
Discover ==
    /\ ret = NoCall
    /\ intent.pc = "idle"
    /\ kg' = discover_relationships(kg, dataframes)
    /\ ret' = Call("discover_relationships", <<dataframes>>, kg'.relationships)
    /\ UNCHANGED <<dataframes, llm, compiler_ready, intent, log, other>>

\* kg.get_join_path(file1, file2)
GetJoinPath ==
    /\ ret = NoCall
    /\ intent.pc = "idle"
    /\ \E file1, file2 \in FileNames :
          \E outcome \in get_join_path(kg, file1, file2) :
              ret' = Call("get_join_path", <<file1, file2>>, outcome)
    /\ UNCHANGED <<kg, dataframes, llm, compiler_ready, intent, log, other>>

\* kg.get_join_columns_for_path(path)
GetJoinColumns ==
    /\ ret = NoCall
    /\ intent.pc = "idle"
    /\ \E path \in PathArgs :
          ret' = Call("get_join_columns_for_path", <<path>>,
                      get_join_columns_for_path(kg, path))
    /\ UNCHANGED <<kg, dataframes, llm, compiler_ready, intent, log, other>>

\* The caller takes the result of the call and goes on to its next call.
Return ==
    /\ ret # NoCall
    /\ ret' = NoCall
    /\ UNCHANGED <<kg, dataframes, llm, compiler_ready, intent, log, other>>

NextKG == Scan \/ Discover \/ GetJoinPath \/ GetJoinColumns \/ Return

SpecKG == InitKG /\ [][NextKG]_vars

----------------------------------------------------------------------------
(* discover_relationships on two DataFrames of one column each, the names  *)
(* and the values of the two columns being any of those below              *)

\* The largest value a column holds
MaxValue == 10

\* Names with the tokens id and client, with one of them, with none, with the
\* two keywords glued into one token, with a space for separator
ColumnNames ==
    {s_ID_Client, s_Ref_Client, s_Region,
     <<"c", "l", "i", "e", "n", "t", " ", "i", "d">>,
     <<"Z", "o", "n", "e">>,
     <<"i", "d", "c", "l", "i", "e", "n", "t">>}

\* The distinct non-null values of the first column: 1..a, none when a = 0
FirstValues == {1..a : a \in 0..MaxValue}

\* The distinct non-null values of the second column: b..c, none when b > c
SecondValues == {b..c : b, c \in 1..MaxValue}

\* kg = LivingKnowledgeGraph(); dataframes is the dict handed to discover_relationships
InitPairs ==
    /\ kg = new_knowledge_graph
    /\ \E name1, name2 \in ColumnNames : \E values1 \in FirstValues : \E values2 \in SecondValues :
          dataframes = <<[file |-> s_customer_domain,
                          df |-> <<Column(name1, s_int64, values1)>>],
                         [file |-> s_sales_domain,
                          df |-> <<Column(name2, s_int64, values2)>>]>>
    /\ ret = NoCall
    /\ llm = FALSE
    /\ compiler_ready = FALSE
    /\ intent = Idle
    /\ log = <<>>
    /\ other = NewSession

NextPairs == Discover \/ Return

SpecPairs == InitPairs /\ [][NextPairs]_vars

----------------------------------------------------------------------------
(* The Trust Layer on a scanned graph, as test_trust_layer drives it *)


\* ' '.join(tokens)
RECURSIVE join_tokens(_)
join_tokens(tokens) ==
    IF tokens = <<>> THEN <<>>
    ELSE IF Len(tokens) = 1 THEN tokens[1]
    ELSE tokens[1] \o <<" ">> \o join_tokens(Tail(tokens))

\* The longest query, in tokens
MaxQueryTokens == 2

\* The pieces of the queries: the two words a query must hold, the five dangerous
\* keywords in several letter cases, a word that only contains one of them, a
\* quote, and a join condition between columns of different types
SqlTokens ==
    {<<"S", "E", "L", "E", "C", "T">>,
     <<"f", "r", "o", "m">>,
     <<"d", "r", "o", "p">>,
     <<"D", "R", "O", "P">>,
     <<"D", "e", "l", "e", "t", "e">>,
     <<"U", "P", "D", "A", "T", "E">>,
     <<"t", "r", "u", "n", "c", "a", "t", "e">>,
     <<"I", "n", "s", "e", "r", "t">>,
     <<"d", "r", "o", "p", "_", "t", "a", "b", "l", "e">>,
     <<"'">>,
     <<"S", "E", "L", "E", "C", "T", " ", "*", " ", "F", "R", "O", "M", " ", "t">>,
     <<"s", "e", "l", "e", "c", "t", "e", "d", "_", "f", "r", "o", "m">>,
     \* customer_domain.ID_Client = sales_domain.Ref_Client
     s_customer_domain \o <<".">> \o s_ID_Client \o <<" ", "=", " ">>
        \o s_sales_domain \o <<".">> \o s_Ref_Client}

SqlQueries ==
    {join_tokens(tokens) : tokens \in UNION {[1..n -> SqlTokens] : n \in 0..MaxQueryTokens}}

\* What the planner asks for: nothing, two data products and a column of theirs,
\* columns of a file that does not exist and is not asked for, a column that does
\* not exist, two known files and an unknown one with columns asked of both kinds
Manifests ==
    {Manifest(<<>>, <<>>),
     Manifest(<<s_customer_domain, s_sales_domain>>,
              <<Item(s_customer_domain, <<s_ID_Client>>)>>),
     Manifest(<<s_customer_domain>>, <<Item(s_orders_domain, <<s_ID_Client>>)>>),
     Manifest(<<s_customer_domain>>,
              \* ColonneInexistante
              <<Item(s_customer_domain,
                     <<<<"C", "o", "l", "o", "n", "n", "e", "I", "n", "e", "x", "i", "s",
                         "t", "a", "n", "t", "e">> >>)>>),
     Manifest(<<s_customer_domain, s_sales_domain, s_orders_domain>>,
              <<Item(s_customer_domain, <<s_ID_Client, s_ID_Produit, s_Ref_Client>>),
                Item(s_orders_domain, <<s_ID_Client>>)>>)}

\* What the judge can answer: OK in some case and spacing, a remark, a failure
JudgeAnswers == {Response(<<" ", "o", "k", "\n">>), Response(<<"n", "o">>), JudgeFailure}

\* The directory holding the three data products
GeneratedListings ==
    {<<[file |-> s_customer_domain, df |-> customer_domain],
       [file |-> s_logistics_domain, df |-> logistics_domain],
       [file |-> s_sales_domain, df |-> sales_domain]>>}

\* TrustLayer(knowledge_graph=kg, llm=...) on a new graph
InitTL ==
    /\ kg = new_knowledge_graph
    /\ dataframes = <<>>
    /\ ret = NoCall
    /\ llm \in BOOLEAN
    /\ compiler_ready = FALSE
    /\ intent = Idle
    /\ log = <<>>
    /\ other = NewSession

ScanGenerated == ScanOf(GeneratedListings)

\* trust_layer.validate_execution_plan(sql_query, required_files, required_columns)
ValidateOf(queries, manifests) ==
    /\ ret = NoCall
    /\ intent.pc = "idle"
    /\ \E sql_query \in queries : \E m \in manifests :
          \E answer \in (IF llm THEN JudgeAnswers ELSE {JudgeFailure}) :
              ret' = Call("validate_execution_plan",
                          <<sql_query, m.required_files, m.required_columns, answer>>,
                          validate_execution_plan(kg, llm, answer, sql_query,
                              m.required_files, m.required_columns))
    /\ UNCHANGED <<kg, dataframes, llm, compiler_ready, intent, log, other>>

Validate == ValidateOf(SqlQueries, Manifests)

NextTL == ScanGenerated \/ Validate \/ Return

SpecTL == InitTL /\ [][NextTL]_vars

----------------------------------------------------------------------------
(* The join rule of the Trust Layer on columns of every kind of dtype *)

\* str(df[col].dtype) of a column: in the numeric bucket (Int64 is the nullable
\* integer dtype), in the string bucket, in neither
DTypes ==
    {s_int64, <<"I", "n", "t", "6", "4">>, <<"f", "l", "o", "a", "t", "6", "4">>,
     s_object, <<"s", "t", "r", "i", "n", "g">>,
     <<"d", "a", "t", "e", "t", "i", "m", "e", "6", "4", "[", "n", "s", "]">>,
     <<"b", "o", "o", "l">>}

\* What data_dir.glob can find: customer_domain with its ID_Client and sales_domain
\* with its Ref_Client, of any two dtypes
TypedListings ==
    {<<[file |-> s_customer_domain, df |-> <<Column(s_ID_Client, type1, {1, 2})>>],
       [file |-> s_sales_domain, df |-> <<Column(s_Ref_Client, type2, {1, 2})>>]>> :
        type1, type2 \in DTypes}

\* The aliases a query gives to the two datasets: the dataset's name, a name that
\* holds it, a part of it in another letter case, one letter of it, a foreign letter
Aliases ==
    {s_customer_domain, s_sales_domain,
     <<"m", "y", "_">> \o s_sales_domain,
     <<"S", "A", "L", "E", "S">>, <<"c">>, <<"s">>, <<"x">>}

\* SELECT * FROM t JOIN u ON alias1.ID_Client = alias2.Ref_Client
JoinQuery(alias1, alias2) ==
    <<"S", "E", "L", "E", "C", "T", " ", "*", " ", "F", "R", "O", "M", " ", "t", " ",
      "J", "O", "I", "N", " ", "u", " ", "O", "N", " ">>
        \o alias1 \o <<".">> \o s_ID_Client \o <<" ", "=", " ">>
        \o alias2 \o <<".">> \o s_Ref_Client

JoinQueries == {JoinQuery(alias1, alias2) : alias1, alias2 \in Aliases}

JoinManifests ==
    {Manifest(<<s_customer_domain, s_sales_domain>>, <<>>),
     Manifest(<<s_sales_domain, s_customer_domain>>, <<>>),
     Manifest(<<s_sales_domain>>, <<>>)}

ScanTyped == ScanOf(TypedListings)

ValidateJoin == ValidateOf(JoinQueries, JoinManifests)

NextJoin == ScanTyped \/ ValidateJoin \/ Return

SpecJoin == InitTL /\ [][NextJoin]_vars

----------------------------------------------------------------------------
(* The audit report of the Trust Layer on lists of issues of every severity *)

\* The longest list of issues handed to generate_audit_report
MaxIssues == 3

\* Issues of the three severities, with and without a suggestion
ReportIssues ==
    {ValidationIssue(severity, "sql_syntax",
                     Text("Guillemets simples non appariés détectés", <<>>), suggestion) :
        severity \in {"critical", "warning", "info"},
        suggestion \in {NoSuggestion, Text("Convertir l'un des types avec CAST()", <<>>)}}

\* trust_layer.generate_audit_report(issues)
AuditReport ==
    /\ ret = NoCall
    /\ intent.pc = "idle"
    /\ \E issues \in UNION {[1..n -> ReportIssues] : n \in 0..MaxIssues} :
          ret' = Call("generate_audit_report", <<issues>>, generate_audit_report(issues))
    /\ UNCHANGED <<kg, dataframes, llm, compiler_ready, intent, log, other>>

NextReport == AuditReport \/ Return

SpecReport == InitTL /\ [][NextReport]_vars

----------------------------------------------------------------------------
(* Two sessions of the interface, each with the objects that start() built *)
(* for it and keeps in cl.user_session                                      *)

\* The scheduler goes from one session to the other as if LivingKnowledgeGraph
\* kept metadata as an attribute of the class, shared by its instances
SwitchSessionSharing ==
    /\ ret = NoCall
    /\ intent.pc = "idle"
    /\ kg' = [other.kg EXCEPT !.metadata = kg.metadata]
    /\ dataframes' = other.dataframes
    /\ other' = [kg |-> kg, dataframes |-> dataframes]
    /\ UNCHANGED <<ret, llm, compiler_ready, intent, log>>

\* Between two calls the next message handled is one of the other session: its
\* handler gets that session's knowledge_graph and dataframes from cl.user_session
SwitchSession ==
    /\ ret = NoCall
    /\ intent.pc = "idle"
    /\ kg' = other.kg
    /\ dataframes' = other.dataframes
    /\ other' = [kg |-> kg, dataframes |-> dataframes]
    /\ UNCHANGED <<ret, llm, compiler_ready, intent, log>>

NextSessions ==
    ScanGenerated \/ Discover \/ GetJoinPath \/ ValidateJoin \/ Return \/ SwitchSession

SpecSessions == InitTL /\ [][NextSessions]_vars

----------------------------------------------------------------------------
(* ados_main.py: an ADOS handling intentions, one process_intent at a time *)

\* What json.loads and the pydantic model make of an answer of the LLM
Parsed(value) == [parsed |-> TRUE, value |-> value]
DiscoveryAnswers == {Parsed(m) : m \in Manifests} \cup {[parsed |-> FALSE, value |-> Manifest(<<>>, <<>>)]}
PlanningAnswers == {Parsed(JoinPlan(q)) : q \in SqlQueries} \cup {[parsed |-> FALSE, value |-> JoinPlan(<<>>)]}

Event(event, sql_query) == [event |-> event, sql_query |-> sql_query]

\* ADOS.__init__: the data products generated, the graph scanned and discovered,
\* the Trust Layer without a judge, the compiler built or not
InitADOS ==
    /\ \E listing \in GeneratedListings :
          LET r == scan_data_products(new_knowledge_graph, listing)
          IN  /\ kg = discover_relationships(r.kg, r.dataframes)
              /\ dataframes = r.dataframes
    /\ ret = NoCall
    /\ llm = FALSE
    /\ compiler_ready \in BOOLEAN
    /\ intent = Idle
    /\ log = <<>>
    /\ other = NewSession

\* process_intent when the compiler is not available: the error dict
ProcessIntentUnavailable ==
    /\ ret = NoCall
    /\ intent.pc = "idle"
    /\ ~compiler_ready
    /\ \E validate \in BOOLEAN :
          ret' = Call("process_intent", <<validate>>, "error")
    /\ log' = <<>>
    /\ UNCHANGED <<kg, dataframes, llm, compiler_ready, intent, other>>

\* process_intent calls compile_intent: the initial GraphState
CompileIntent ==
    /\ ret = NoCall
    /\ intent.pc = "idle"
    /\ compiler_ready
    /\ \E validate \in BOOLEAN :
          intent' = GraphState("discovery", validate, NoDiscovery, NoPlan, NoExecution,
                               TRUE, <<>>)
    /\ log' = <<>>
    /\ UNCHANGED <<kg, dataframes, ret, llm, compiler_ready, other>>

\* _discovery_node without state["validation_passed"] = False in its except clause
DiscoveryNodeKeepingPassed ==
    /\ intent.pc = "discovery"
    /\ \E answer \in DiscoveryAnswers :
          intent' =
              IF answer.parsed
              THEN [intent EXCEPT !.pc = "planning",
                                  !.discovery = Some(answer.value),
                                  !.messages = Append(@, "Découverte")]
              ELSE [intent EXCEPT !.pc = "planning",
                                  !.messages = Append(@, "Erreur discovery")]
    /\ UNCHANGED <<kg, dataframes, ret, llm, compiler_ready, log, other>>

\* _discovery_node
DiscoveryNode ==
    /\ intent.pc = "discovery"
    /\ \E answer \in DiscoveryAnswers :
          intent' =
              IF answer.parsed
              THEN [intent EXCEPT !.pc = "planning",
                                  !.discovery = Some(answer.value),
                                  !.messages = Append(@, "Découverte")]
              ELSE [intent EXCEPT !.pc = "planning",
                                  !.messages = Append(@, "Erreur discovery"),
                                  !.validation_passed = FALSE]
    /\ UNCHANGED <<kg, dataframes, ret, llm, compiler_ready, log, other>>

\* _planning_node; an exception of get_join_path is caught nowhere and ends
\* compile_intent and process_intent
PlanningNode ==
    /\ intent.pc = "planning"
    /\ IF ~intent.discovery.present
       THEN /\ intent' = [intent EXCEPT !.pc = "execution",
                                        !.messages = Append(@, "Impossible de planifier sans découverte")]
            /\ ret' = ret
       ELSE LET files == intent.discovery.value.required_files
                lookups == IF Len(files) > 1
                           THEN get_join_path(kg, files[1], files[Len(files)])
                           ELSE {ReturnNone}
            IN  \E path \in lookups :
                  IF path.kind = "raise"
                  THEN /\ intent' = Idle
                       /\ ret' = Call("process_intent", <<intent.validate>>, path.exc)
                  ELSE /\ \E answer \in PlanningAnswers :
                            intent' =
                                IF answer.parsed
                                THEN [intent EXCEPT !.pc = "execution",
                                                    !.join_plan = Some(answer.value),
                                                    !.messages = Append(@, "Plan SQL généré")]
                                ELSE [intent EXCEPT !.pc = "execution",
                                                    !.messages = Append(@, "Erreur planning"),
                                                    !.validation_passed = FALSE]
                       /\ ret' = ret
    /\ UNCHANGED <<kg, dataframes, llm, compiler_ready, log, other>>

\* _execution_node: conn.execute(join_plan.sql_query) runs the query, and DuckDB
\* returns rows or raises
ExecutionNode ==
    /\ intent.pc = "execution"
    /\ IF ~intent.join_plan.present
       THEN /\ intent' = [intent EXCEPT !.pc = "compiled",
                                        !.messages = Append(@, "Impossible d'exécuter sans plan")]
            /\ log' = log
       ELSE /\ log' = Append(log, Event("execute", intent.join_plan.value.sql_query))
            /\ \E success \in BOOLEAN :
                  intent' =
                      IF success
                      THEN [intent EXCEPT !.pc = "compiled",
                                          !.execution_result = Some(ExecutionResult(TRUE)),
                                          !.messages = Append(@, "Exécution réussie")]
                      ELSE [intent EXCEPT !.pc = "compiled",
                                          !.execution_result = Some(ExecutionResult(FALSE)),
                                          !.messages = Append(@, "Erreur exécution"),
                                          !.validation_passed = FALSE]
    /\ UNCHANGED <<kg, dataframes, ret, llm, compiler_ready, other>>

\* The dict compile_intent returns, with the "validation" entry of process_intent
Result(state, validation) ==
    [discovery |-> state.discovery, plan |-> state.join_plan,
     execution |-> state.execution_result, messages |-> state.messages,
     validation_passed |-> state.validation_passed, validation |-> validation]

NoValidation == [present |-> FALSE, value |-> [passed |-> FALSE, issues |-> <<>>]]

\* process_intent after compile_intent has returned: the Trust Layer validates
\* the plan, if there is one and validation is asked for
TrustValidation ==
    /\ intent.pc = "compiled"
    /\ IF intent.validate /\ intent.join_plan.present /\ intent.discovery.present
       THEN LET sql_query == intent.join_plan.value.sql_query
                discovery == intent.discovery.value
                validation == validate_execution_plan(kg, llm, JudgeFailure, sql_query,
                                  discovery.required_files, discovery.required_columns)
            IN  /\ log' = Append(log, Event("validate", sql_query))
                /\ ret' = Call("process_intent", <<intent.validate>>,
                               Result(intent, Some(validation)))
       ELSE /\ log' = log
            /\ ret' = Call("process_intent", <<intent.validate>>,
                           Result(intent, NoValidation))
    /\ intent' = Idle
    /\ UNCHANGED <<kg, dataframes, llm, compiler_ready, other>>

NextADOS ==
    \/ ProcessIntentUnavailable
    \/ CompileIntent
    \/ DiscoveryNode
    \/ PlanningNode
    \/ ExecutionNode
    \/ TrustValidation
    \/ Return

SpecADOS == InitADOS /\ [][NextADOS]_vars

----------------------------------------------------------------------------
(* Claims about the Living Knowledge Graph, checked under SpecKG *)

\* The file names of a dict of DataFrames
dataframe_names(dfs) == {dfs[i].file : i \in DOMAIN dfs}

\* The nodes linked to file1 by a chain of edges taken in either direction
RECURSIVE reach(_, _, _)
reach(k, frontier, seen) ==
    LET next == {v \in (DOMAIN k.nodes) \ seen : \E u \in frontier : adjacent(k, u, v)}
    IN  IF next = {} THEN seen ELSE reach(k, next, seen \cup next)

Connected(k, file1, file2) == file2 \in reach(k, {file1}, {file1})

\* The number of hops of a breadth-first search from frontier to file2
RECURSIVE hops(_, _, _, _)
hops(k, frontier, seen, file2) ==
    IF file2 \in frontier THEN 0
    ELSE LET next == {v \in (DOMAIN k.nodes) \ seen :
                         \E u \in frontier : adjacent(k, u, v)}
         IN  1 + hops(k, next, seen \cup next, file2)

\* The relationships of rels between column c1 of file f1 and column c2 of file f2
between(rels, f1, c1, f2, c2) ==
    {m \in DOMAIN rels :
        \/ /\ rels[m].source_file = f1 /\ rels[m].source_column = c1
           /\ rels[m].target_file = f2 /\ rels[m].target_column = c2
        \/ /\ rels[m].source_file = f2 /\ rels[m].source_column = c2
           /\ rels[m].target_file = f1 /\ rels[m].target_column = c1}

\* C4: after a discovery the graph has as many edges as the relationship list has
\* relationships, each relationship being kept as its own edge.
C4_EdgeCountIsRelationshipCount ==
    ret.op = "discover_relationships" =>
        Cardinality(DOMAIN kg.edges) = Len(kg.relationships)

\* C5: after a discovery the edges of the graph are those of the relationships that
\* this discovery produced; no edge of an earlier discovery is left over.
C5_EdgesAreThoseOfLastDiscovery ==
    ret.op = "discover_relationships" =>
        /\ kg.relationships = ret.result
        /\ \A e \in DOMAIN kg.edges :
              \E m \in DOMAIN kg.relationships :
                  e = <<kg.relationships[m].source_file, kg.relationships[m].target_file>>

\* C6: after a scan the metadata and the nodes of the graph are exactly the
\* datasets that this scan found in the directory.
C6_MetadataIsLastScan ==
    ret.op = "scan_data_products" =>
        /\ DOMAIN kg.metadata = dataframe_names(ret.args[1])
        /\ DOMAIN kg.nodes = dataframe_names(ret.args[1])

\* C7: for scanned datasets a and b, get_join_path(a, a) returns [a], and
\* get_join_path(a, b) returns None, without raising, when no chain of
\* relationships links a and b.
C7_JoinPathSelfAndDisconnected ==
    (/\ ret.op = "get_join_path"
     /\ ret.args[1] \in DOMAIN kg.metadata
     /\ ret.args[2] \in DOMAIN kg.metadata)
    => /\ ret.args[1] = ret.args[2] => ret.result = ReturnPath(<<ret.args[1]>>)
       /\ ~Connected(kg, ret.args[1], ret.args[2]) => ret.result = ReturnNone

C7_Witness ==
    /\ ret.op = "get_join_path"
    /\ ret.args[1] \in DOMAIN kg.metadata
    /\ ret.args[2] \in DOMAIN kg.metadata
    /\ ret.args[1] # ret.args[2]
    /\ kg.edges # EmptyDict
    /\ ~Connected(kg, ret.args[1], ret.args[2])
    /\ ret.result = ReturnNone

\* The graph with the confidence of edge e set to c
with_confidence(k, e, c) == [k EXCEPT !.edges[e].confidence = c]

OtherConfidences == {Rat(11, 100), Rat(1, 2), Rat(95, 100)}

\* C8: when a and b are connected, get_join_path(a, b) returns a path that starts
\* with a, ends with b, has every consecutive pair joined by an edge in either
\* direction and has the fewest hops possible; and it is a result of the same call
\* whatever confidence any edge carries.
C8_JoinPathIsShortest ==
    (/\ ret.op = "get_join_path"
     /\ ret.args[1] \in DOMAIN kg.nodes
     /\ ret.args[2] \in DOMAIN kg.nodes
     /\ Connected(kg, ret.args[1], ret.args[2]))
    => LET a == ret.args[1]
           b == ret.args[2]
           p == ret.result.path
       IN  /\ ret.result.kind = "path"
           /\ Len(p) >= 1
           /\ p[1] = a
           /\ p[Len(p)] = b
           /\ \A i \in 1..(Len(p) - 1) : adjacent(kg, p[i], p[i + 1])
           /\ Len(p) - 1 = hops(kg, {a}, {a}, b)
           /\ \A e \in DOMAIN kg.edges : \A c \in OtherConfidences :
                 ret.result \in get_join_path(with_confidence(kg, e, c), a, b)

\* A two-hop answer in a graph that also holds longer routes between the two
C8_Witness ==
    /\ ret.op = "get_join_path"
    /\ ret.result.kind = "path"
    /\ Len(ret.result.path) = 3
    /\ Cardinality(DOMAIN kg.edges) >= 2

\* C9: get_join_columns_for_path(path) returns, in path order, for each consecutive
\* pair of the path that some relationship joins, the (source file, source column,
\* target file, target column) of the first such relationship of the list; a pair
\* that no relationship joins adds nothing.
joined_pairs(k, path) ==
    {i \in 1..(Len(path) - 1) :
        \E m \in DOMAIN k.relationships :
            {k.relationships[m].source_file, k.relationships[m].target_file}
                = {path[i], path[i + 1]}}

C9_JoinColumnsAreFirstRelationships ==
    ret.op = "get_join_columns_for_path" =>
        LET path == ret.args[1]
            rels == kg.relationships
            J == joined_pairs(kg, path)
            joins(m, i) ==
                \/ rels[m].source_file = path[i] /\ rels[m].target_file = path[i + 1]
                \/ rels[m].source_file = path[i + 1] /\ rels[m].target_file = path[i]
        IN  /\ Len(ret.result) = Cardinality(J)
            /\ \A i \in J :
                  LET rank == Cardinality({j \in J : j <= i})
                      first == CHOOSE m \in DOMAIN rels :
                                  /\ joins(m, i)
                                  /\ \A n \in 1..(m - 1) : ~joins(n, i)
                  IN  ret.result[rank] =
                         <<rels[first].source_file, rels[first].source_column,
                           rels[first].target_file, rels[first].target_column>>

\* A path of two pairs, the first joined by two relationships and walked against
\* their direction, with a pair that nothing joins left out
C9_Witness ==
    /\ ret.op = "get_join_columns_for_path"
    /\ Len(ret.args[1]) = 3
    /\ Len(ret.result) = 1
    /\ \E m, n \in DOMAIN kg.relationships :
          /\ m # n
          /\ kg.relationships[m].source_file = ret.args[1][2]
          /\ kg.relationships[m].target_file = ret.args[1][1]
          /\ kg.relationships[n].source_file = ret.args[1][2]
          /\ kg.relationships[n].target_file = ret.args[1][1]

\* C10: for every two distinct datasets handed to a discovery and every two of
\* their columns with the same name, the discovery emits exactly one relationship
\* for that column pair, an exact_name_match of confidence 0.90, whatever the
\* values of the two columns share, and no join_key relationship for it.
C10_ExactNameMatch ==
    ret.op = "discover_relationships" =>
        LET dfs == ret.args[1]
            rels == ret.result
        IN  \A i, j \in DOMAIN dfs : \A x \in DOMAIN dfs[i].df : \A y \in DOMAIN dfs[j].df :
               (i < j /\ dfs[i].df[x].name = dfs[j].df[y].name) =>
                   LET found == between(rels, dfs[i].file, dfs[i].df[x].name,
                                        dfs[j].file, dfs[j].df[y].name)
                   IN  /\ Cardinality(found) = 1
                       /\ \A m \in found :
                             /\ rels[m].relationship_type = "exact_name_match"
                             /\ RatEq(rels[m].confidence, Rat(90, 100))

\* Same-named columns sharing no value, and same-named columns that the join-key
\* heuristic would also accept, in one discovery
C10_Witness ==
    /\ ret.op = "discover_relationships"
    /\ \E m, n \in DOMAIN ret.result :
          /\ ret.result[m].source_column = s_Region
          /\ ret.result[m].target_column = s_Region
          /\ ret.result[n].source_column = s_ID_Client
          /\ ret.result[n].target_column = s_ID_Client
          /\ is_potential_join_key(s_ID_Client, s_ID_Client)
    /\ \E i, j \in DOMAIN ret.args[1] :
          \E x \in DOMAIN ret.args[1][i].df : \E y \in DOMAIN ret.args[1][j].df :
              /\ i # j
              /\ ret.args[1][i].df[x].name = s_Region
              /\ ret.args[1][j].df[y].name = s_Region
              /\ ret.args[1][i].df[x].values \cap ret.args[1][j].df[y].values = {}

----------------------------------------------------------------------------
(* Claims about the discovery of relationships, checked under SpecPairs *)

Discovered == ret.op = "discover_relationships"

\* The tokens of a column name: the maximal runs of its lower-cased characters
\* that hold no underscore and no whitespace
name_tokens(name) ==
    LET s == lower(name)
        sep(i) == s[i] = "_" \/ is_space_char(s[i])
    IN  {SubSeq(s, p[1], p[2]) :
            p \in {q \in (1..Len(s)) \X (1..Len(s)) :
                      /\ q[1] <= q[2]
                      /\ \A h \in q[1]..q[2] : ~sep(h)
                      /\ q[1] = 1 \/ sep(q[1] - 1)
                      /\ q[2] = Len(s) \/ sep(q[2] + 1)}}

share_keyword(name1, name2) ==
    name_tokens(name1) \cap name_tokens(name2) \cap significant_keywords # {}

\* The pairs of columns a discovery compares: column x of the i-th DataFrame and
\* column y of a later one
column_pairs(dfs) ==
    {p \in (DOMAIN dfs) \X (DOMAIN dfs) \X (1..Len(dfs[1].df)) \X (1..Len(dfs[Len(dfs)].df)) :
        p[1] < p[2] /\ p[3] \in DOMAIN dfs[p[1]].df /\ p[4] \in DOMAIN dfs[p[2]].df}

first_column(dfs, p) == dfs[p[1]].df[p[3]]
second_column(dfs, p) == dfs[p[2]].df[p[4]]

\* The relationships of rels for the pair p of columns
found_for(dfs, rels, p) ==
    between(rels, dfs[p[1]].file, first_column(dfs, p).name,
                  dfs[p[2]].file, second_column(dfs, p).name)

\* C11, as stated: for any two columns of two different datasets whose names
\* share no significant keyword token, discovery emits no relationship between
\* them, whatever their values.
C11_NoKeywordNoRelationship ==
    Discovered =>
        \A p \in column_pairs(ret.args[1]) :
            ~share_keyword(first_column(ret.args[1], p).name, second_column(ret.args[1], p).name)
                => found_for(ret.args[1], ret.result, p) = {}

\* C11, amended: for any two columns of two different datasets whose names differ
\* and share no significant keyword token, discovery emits no relationship
\* between them, whatever their values.
C11_NoKeywordNoRelationshipBetweenOtherNames ==
    Discovered =>
        \A p \in column_pairs(ret.args[1]) :
            (/\ first_column(ret.args[1], p).name # second_column(ret.args[1], p).name
             /\ ~share_keyword(first_column(ret.args[1], p).name,
                               second_column(ret.args[1], p).name))
                => found_for(ret.args[1], ret.result, p) = {}

\* Two columns of different names, each holding keywords inside one token and
\* sharing none as a token, with the same values: the discovery found nothing
C11_Witness ==
    /\ Discovered
    /\ ret.result = <<>>
    /\ \E p \in column_pairs(ret.args[1]) :
          LET c1 == first_column(ret.args[1], p)
              c2 == second_column(ret.args[1], p)
          IN  /\ c1.name # c2.name
              /\ ~share_keyword(c1.name, c2.name)
              /\ \E kw \in significant_keywords :
                    contains(lower(c1.name), kw) /\ contains(lower(c2.name), kw)
              /\ c1.values = c2.values
              /\ c1.values # {}

kind_and_confidence(rels) ==
    [m \in DOMAIN rels |-> <<rels[m].relationship_type, rels[m].confidence>>]

\* C13: the value overlap is order-symmetric: for every two columns, the overlap
\* computed with the arguments swapped is the same value, and the discovery of
\* the two DataFrames handed over in the other order takes the same decision,
\* with the same confidence.
C13_OverlapIsSymmetric ==
    Discovered =>
        \A p \in column_pairs(ret.args[1]) :
            LET c1 == first_column(ret.args[1], p)
                c2 == second_column(ret.args[1], p)
                e1 == ret.args[1][p[1]]
                e2 == ret.args[1][p[2]]
            IN  /\ calculate_value_overlap(c1.values, c2.values)
                      = calculate_value_overlap(c2.values, c1.values)
                /\ kind_and_confidence(discovered(<<e2, e1>>))
                      = kind_and_confidence(discovered(<<e1, e2>>))
                /\ discovered(<<e1, e2>>) = ret.result

\* A join_key between two columns of which one holds all the values of the other
\* and more
C13_Witness ==
    /\ Discovered
    /\ \E p \in column_pairs(ret.args[1]) :
          LET c1 == first_column(ret.args[1], p)
              c2 == second_column(ret.args[1], p)
          IN  /\ c1.values # c2.values
              /\ c1.values \subseteq c2.values
              /\ \E m \in found_for(ret.args[1], ret.result, p) :
                    ret.result[m].relationship_type = "join_key"

C26_UnknownNodeGivesNone ==
    /\ ret.op = "get_join_path"
    /\ ret.args[1] \notin DOMAIN kg.nodes \/ ret.args[2] \notin DOMAIN kg.nodes
    => ret.result = ReturnNone

\* C27: after any sequence of scans and discoveries, for every path that
\* get_join_path returns, get_join_columns_for_path returns exactly one join tuple
\* per consecutive pair of the path (len(path) - 1 tuples): every edge the path
\* uses is backed by a relationship of the current relationship list.
C27_OneJoinPerStepOfAPath ==
    \A file1, file2 \in FileNames :
        \A outcome \in get_join_path(kg, file1, file2) :
            outcome.kind = "path" =>
                Len(get_join_columns_for_path(kg, outcome.path)) = Len(outcome.path) - 1

----------------------------------------------------------------------------
(* Claims about the Trust Layer, checked under SpecTL *)

Validated == ret.op = "validate_execution_plan"

issues_of_rule(issues, rule) == SelectSeq(issues, LAMBDA issue : issue.rule = rule)

\* kw, written in capitals, stands in s as a whole word in some letter case: an
\* occurrence with no letter, digit or underscore right before or right after it
occurs_as_word(kw, s) ==
    \E i \in 1..Len(s) :
        LET j == i + Len(kw) - 1
        IN  /\ j <= Len(s)
            /\ upper(SubSeq(s, i, j)) = kw
            /\ i = 1 \/ ~is_word_char(s[i - 1])
            /\ j = Len(s) \/ ~is_word_char(s[j + 1])

keywords_present(s) == {i \in DOMAIN dangerous_keywords : occurs_as_word(dangerous_keywords[i].pattern, s)}

\* C2: validate_execution_plan returns passed = True exactly when no returned
\* issue has severity critical; warning and info issues never make it False.
C2_PassedIffNoCritical ==
    Validated =>
        (ret.result.passed
            <=> \A i \in DOMAIN ret.result.issues : ret.result.issues[i].severity # "critical")

\* A validation that passed although it reported a warning
C2_Witness ==
    /\ Validated
    /\ ret.result.passed
    /\ \E i \in DOMAIN ret.result.issues : ret.result.issues[i].severity = "warning"

\* C3: for every query, validation yields exactly one critical sql_safety issue
\* per distinct keyword among DROP, DELETE, UPDATE, TRUNCATE, INSERT that the query
\* holds as a whole word in any letter case, and then passed = False whatever the
\* other rules report; a query holding none of them yields no sql_safety issue.
C3_OneSafetyIssuePerKeyword ==
    Validated =>
        LET present == keywords_present(ret.args[1])
            safety == issues_of_rule(ret.result.issues, "sql_safety")
        IN  /\ Len(safety) = Cardinality(present)
            /\ \A i \in DOMAIN safety : safety[i].severity = "critical"
            /\ \A k \in present :
                  Cardinality({i \in DOMAIN safety :
                      safety[i].message.fmt = dangerous_keywords[k].message}) = 1
            /\ present # {} => ~ret.result.passed

\* A query holding two of the keywords, one not in capitals, among issues of other
\* rules: two sql_safety issues and a failed validation
C3_Witness ==
    /\ Validated
    /\ Cardinality(keywords_present(ret.args[1])) = 2
    /\ occurs_as_word(s_DELETE, ret.args[1]) /\ ~contains(ret.args[1], s_DELETE)
    /\ Len(issues_of_rule(ret.result.issues, "sql_safety")) = 2
    /\ issues_of_rule(ret.result.issues, "file_existence") # <<>>
    /\ ~ret.result.passed

\* The entries of required_files that the scan did not find, in their order
not_scanned(files) == SelectSeq(files, LAMBDA file : file \notin dataframe_names(dataframes))

\* C15: for every entry of required_files that is not a scanned dataset, validation
\* returns (it never raises) one critical file_existence issue whose suggestion
\* lists the known datasets, and passed = False; an entry that is a scanned dataset
\* produces no file_existence issue.
C15_OneFileIssuePerUnknownEntry ==
    Validated =>
        LET missing == not_scanned(ret.args[2])
            found == issues_of_rule(ret.result.issues, "file_existence")
        IN  /\ Len(found) = Len(missing)
            /\ \A i \in DOMAIN found :
                  /\ found[i].severity = "critical"
                  /\ found[i].message.values = <<missing[i]>>
                  /\ found[i].suggestion.present
                  /\ found[i].suggestion.values = <<dataframe_names(dataframes)>>
            /\ missing # <<>> => ~ret.result.passed

\* After a scan, a plan asking for a scanned dataset and for an unknown one: one
\* issue, about the unknown one, suggesting the three scanned datasets
C15_Witness ==
    /\ Validated
    /\ Cardinality(dataframe_names(dataframes)) = 3
    /\ ret.args[2] = <<s_customer_domain, s_sales_domain, s_orders_domain>>
    /\ Len(issues_of_rule(ret.result.issues, "file_existence")) = 1
    /\ issues_of_rule(ret.result.issues, "file_existence")[1].message.values = <<s_orders_domain>>
    /\ ~ret.result.passed

\* The names of the columns that the scan read in a dataset
scanned_columns(file) ==
    UNION {Range(column_names(dataframes[i].df)) : i \in {n \in DOMAIN dataframes : dataframes[n].file = file}}

\* The pairs <<column, dataset>> of required_columns whose dataset was scanned and
\* has no such column
absent_columns(required_columns) ==
    UNION {{<<required_columns[i].columns[j], required_columns[i].file>> :
                j \in {n \in DOMAIN required_columns[i].columns :
                          required_columns[i].columns[n]
                              \notin scanned_columns(required_columns[i].file)}} :
           i \in {n \in DOMAIN required_columns :
                     required_columns[n].file \in dataframe_names(dataframes)}}

\* C16: column_existence issues are reported exactly for the pairs (dataset,
\* column) of required_columns whose dataset is scanned and whose column is absent
\* from it: one critical issue naming the column for each such pair, and
\* passed = False; no column_existence issue is ever reported for a dataset that
\* failed file_existence.
C16_OneColumnIssuePerAbsentColumn ==
    Validated =>
        LET absent == absent_columns(ret.args[3])
            found == issues_of_rule(ret.result.issues, "column_existence")
        IN  /\ Len(found) = Cardinality(absent)
            /\ \A i \in DOMAIN found :
                  /\ found[i].severity = "critical"
                  /\ found[i].message.values \in absent
                  /\ found[i].message.values[2] \notin Range(not_scanned(ret.args[2]))
            /\ \A pair \in absent :
                  Cardinality({i \in DOMAIN found : found[i].message.values = pair}) = 1
            /\ absent # {} => ~ret.result.passed

\* After a scan, a plan asking three columns of customer_domain, which has one of
\* them, and a column of the unknown orders_domain: two column_existence issues,
\* both about customer_domain
C16_Witness ==
    /\ Validated
    /\ dataframes # <<>>
    /\ \E i \in DOMAIN ret.args[3] : ret.args[3][i].file = s_orders_domain
    /\ issues_of_rule(ret.result.issues, "file_existence") # <<>>
    /\ LET found == issues_of_rule(ret.result.issues, "column_existence")
       IN  /\ Len(found) = 2
           /\ found[1].message.values = <<s_ID_Produit, s_customer_domain>>
           /\ found[2].message.values = <<s_Ref_Client, s_customer_domain>>
    /\ ~ret.result.passed

\* The query holds an odd number of single quotes
odd_quotes(s) == Cardinality({i \in DOMAIN s : s[i] = "'"}) % 2 = 1

\* How many of the issues have this severity and this message
count_issues(issues, severity, message) ==
    Cardinality({i \in DOMAIN issues :
        issues[i].severity = severity /\ issues[i].message.fmt = message})

\* C17: a query without a whole-word, case-insensitive SELECT yields one critical
\* sql_syntax issue, and likewise for FROM; an odd number of single quotes yields a
\* sql_syntax warning only, which by itself leaves passed = True.
C17_SyntaxIssues ==
    Validated =>
        LET sql_query == ret.args[1]
            syntax == issues_of_rule(ret.result.issues, "sql_syntax")
            no_select == ~occurs_as_word(<<"S", "E", "L", "E", "C", "T">>, sql_query)
            no_from == ~occurs_as_word(<<"F", "R", "O", "M">>, sql_query)
            odd == odd_quotes(sql_query)
        IN  /\ count_issues(syntax, "critical", "Requête SQL invalide: SELECT manquant")
                  = IF no_select THEN 1 ELSE 0
            /\ count_issues(syntax, "critical", "Requête SQL invalide: FROM manquant")
                  = IF no_from THEN 1 ELSE 0
            /\ count_issues(syntax, "warning", "Guillemets simples non appariés détectés")
                  = IF odd THEN 1 ELSE 0
            /\ Len(syntax) = (IF no_select THEN 1 ELSE 0) + (IF no_from THEN 1 ELSE 0)
                                + (IF odd THEN 1 ELSE 0)
            /\ no_select \/ no_from => ~ret.result.passed
            /\ odd /\ Len(ret.result.issues) = 1 => ret.result.passed

\* A query with SELECT, FROM and one single quote: the warning is the only issue
\* and the validation passed
C17_Witness ==
    /\ Validated
    /\ occurs_as_word(<<"S", "E", "L", "E", "C", "T">>, ret.args[1])
    /\ occurs_as_word(<<"F", "R", "O", "M">>, ret.args[1])
    /\ odd_quotes(ret.args[1])
    /\ Len(ret.result.issues) = 1
    /\ ret.result.issues[1].severity = "warning"
    /\ ret.result.issues[1].rule = "sql_syntax"
    /\ ret.result.passed

----------------------------------------------------------------------------
(* Claims about the join rule of the Trust Layer, checked under SpecJoin *)

\* The two aliases of the join condition of the validated query
joined_aliases(sql_query) ==
    CHOOSE p \in Aliases \X Aliases : JoinQuery(p[1], p[2]) = sql_query

\* a stands somewhere in b, letter case apart
within(a, b) ==
    \E i \in 0..(Len(b) - Len(a)) : lower(SubSeq(b, i + 1, i + Len(a))) = lower(a)

\* The entries of files that hold the alias or that the alias holds
matching_entries(alias, files) ==
    {i \in DOMAIN files : within(alias, files[i]) \/ within(files[i], alias)}

\* The entry the alias stands for, the first of the matching ones: a set with that
\* entry, or the empty set
resolved_entry(alias, files) ==
    {files[i] : i \in {n \in matching_entries(alias, files) :
                          \A m \in matching_entries(alias, files) : n <= m}}

\* The dtype the scan read for the column of the dataset: a set with that dtype,
\* or the empty set
declared_type(file, column) ==
    UNION {{dataframes[i].df[j].dtype :
                j \in {n \in DOMAIN dataframes[i].df : dataframes[i].df[n].name = column}} :
           i \in {n \in DOMAIN dataframes : dataframes[n].file = file}}

\* The pair of declared types of the join condition when its two aliases resolve
\* and its two columns have a declared type: a set with that pair, or the empty set
typed_pair(sql_query, files) ==
    UNION {declared_type(file1, s_ID_Client) \X declared_type(file2, s_Ref_Client) :
              file1 \in resolved_entry(joined_aliases(sql_query)[1], files),
              file2 \in resolved_entry(joined_aliases(sql_query)[2], files)}

numeric_like(type) == lower(type) \in numeric_types
text_like(type) == lower(type) \in string_types

type_issues == issues_of_rule(ret.result.issues, "type_compatibility")

\* C18: for a join condition alias.col = alias.col whose two aliases resolve and
\* whose two columns have declared types, identical types (letter case apart) or
\* two types of the same bucket yield no issue; one numeric-like and one text-like
\* type yield one critical issue with a suggestion to cast, and passed = False.
C18_CrossBucketJoinIsCritical ==
    Validated =>
        \A t \in typed_pair(ret.args[1], ret.args[2]) :
            /\ (\/ lower(t[1]) = lower(t[2])
                \/ numeric_like(t[1]) /\ numeric_like(t[2])
                \/ text_like(t[1]) /\ text_like(t[2]))
                  => type_issues = <<>>
            /\ (\/ numeric_like(t[1]) /\ text_like(t[2])
                \/ text_like(t[1]) /\ numeric_like(t[2]))
                  => /\ Len(type_issues) = 1
                     /\ type_issues[1].severity = "critical"
                     /\ type_issues[1].suggestion.present
                     /\ type_issues[1].suggestion.fmt = "Convertir l'un des types avec CAST()"
                     /\ ~ret.result.passed

\* customer_domain.ID_Client of dtype object joined with sales_domain.Ref_Client of
\* dtype int64: one critical issue and a failed validation
C18_Witness ==
    /\ Validated
    /\ typed_pair(ret.args[1], ret.args[2]) = {<<s_object, s_int64>>}
    /\ Len(type_issues) = 1
    /\ type_issues[1].severity = "critical"
    /\ ~ret.result.passed

\* C19: for a resolved join pair whose two declared types differ and of which at
\* least one is in neither bucket (a datetime or a boolean type), rule 4 skips the
\* pair: no issue is reported and passed is unaffected by that pair.
C19_UnknownTypeIsSkipped ==
    Validated =>
        \A t \in typed_pair(ret.args[1], ret.args[2]) :
            /\ lower(t[1]) # lower(t[2])
            /\ \/ ~numeric_like(t[1]) /\ ~text_like(t[1])
               \/ ~numeric_like(t[2]) /\ ~text_like(t[2])
            => type_issues = <<>>

\* C20: rule 4 resolves an alias to a required_files entry only when the alias
\* contains the entry's name or the entry's name contains the alias
\* (case-insensitive); a join condition having an alias that matches no entry this
\* way is skipped silently, with no issue and no exception.
C20_UnmatchedAliasIsSkipped ==
    Validated =>
        LET alias1 == joined_aliases(ret.args[1])[1]
            alias2 == joined_aliases(ret.args[1])[2]
            files == ret.args[2]
        IN  /\ matching_entries(alias1, files) = {} \/ matching_entries(alias2, files) = {}
                  => type_issues = <<>>
            /\ \A i \in DOMAIN type_issues :
                  /\ type_issues[i].message.values[1]
                        \in {files[n] : n \in matching_entries(alias1, files)}
                  /\ type_issues[i].message.values[4]
                        \in {files[n] : n \in matching_entries(alias2, files)}

\* x.ID_Client = sales_domain.Ref_Client on columns of dtypes object and int64: x
\* matches no entry, nothing is reported and the validation passed
C20_Witness ==
    /\ Validated
    /\ joined_aliases(ret.args[1]) = <<<<"x">>, s_sales_domain>>
    /\ ret.args[2] = <<s_customer_domain, s_sales_domain>>
    /\ declared_type(s_customer_domain, s_ID_Client) = {s_object}
    /\ declared_type(s_sales_domain, s_Ref_Client) = {s_int64}
    /\ ret.result.issues = <<>>
    /\ ret.result.passed

\* C29: for a manifest required_files = [F1, F2] and a join condition
\* x.c1 = y.c2 where alias x is a prefix of F1's name and alias y is a prefix of
\* F2's name (for example c and s for customer_domain and sales_domain), rule 4
\* takes the declared type of c1 from F1 and the declared type of c2 from F2: an
\* alias is never resolved to another entry merely because its letters also occur
\* inside that entry's name. So a numeric-like c1 of F1 against a text-like c2 of
\* F2, or the reverse, is reported, with the names of F1 and F2.
C29_PrefixAliasesResolveToTheirEntries ==
    Validated /\ Len(ret.args[2]) = 2 =>
        LET alias1 == joined_aliases(ret.args[1])[1]
            alias2 == joined_aliases(ret.args[1])[2]
            F1 == ret.args[2][1]
            F2 == ret.args[2][2]
        IN  startswith(F1, alias1) /\ startswith(F2, alias2) =>
                \A type1 \in declared_type(F1, s_ID_Client) :
                \A type2 \in declared_type(F2, s_Ref_Client) :
                    (\/ numeric_like(type1) /\ text_like(type2)
                     \/ text_like(type1) /\ numeric_like(type2))
                    => /\ Len(type_issues) = 1
                       /\ type_issues[1].message.values
                             = <<F1, s_ID_Client, type1, F2, s_Ref_Client, type2>>

----------------------------------------------------------------------------
(* Claims about a whole validation, checked under SpecTL *)

\* The place of a rule in the order of the rules
rule_rank(rule) ==
    CASE rule = "file_existence" -> 1
      [] rule = "column_existence" -> 2
      [] rule = "sql_syntax" -> 3
      [] rule = "type_compatibility" -> 4
      [] rule = "sql_safety" -> 5
      [] rule = "semantic_coherence" -> 6
      [] OTHER -> 0

\* The query joins customer_domain.ID_Client, an object column, with
\* sales_domain.Ref_Client, an int64 column, both datasets being asked for and scanned
joins_object_with_int64(sql_query, files) ==
    /\ within(s_customer_domain \o <<".">> \o s_ID_Client \o <<" ", "=", " ">>
                \o s_sales_domain \o <<".">> \o s_Ref_Client, sql_query)
    /\ {s_customer_domain, s_sales_domain} \subseteq Range(files)
    /\ {s_customer_domain, s_sales_domain} \subseteq dataframe_names(dataframes)

\* The judge answered, and something else than OK
judge_objects(answer) ==
    /\ llm
    /\ answer.kind = "response"
    /\ \A n \in 0..Len(answer.content) : \A m \in 0..Len(answer.content) :
          n + m + 2 = Len(answer.content) =>
              ~(/\ upper(SubSeq(answer.content, n + 1, n + 2)) = <<"O", "K">>
                /\ \A i \in (1..n) \cup ((n + 3)..Len(answer.content)) :
                      is_space_char(answer.content[i]))

\* C21: every rule runs on every validate call whatever earlier rules reported,
\* and the returned list is the concatenation of the rules' issues in the fixed
\* order file_existence, column_existence, sql_syntax, join type compatibility,
\* sql_safety, semantic_coherence, with the issues of one rule in match order.
C21_AllRulesInOrder ==
    Validated =>
        LET issues == ret.result.issues
            safety == issues_of_rule(issues, "sql_safety")
        IN  /\ \A i, j \in DOMAIN issues :
                  i < j => rule_rank(issues[i].rule) <= rule_rank(issues[j].rule)
            /\ issues_of_rule(issues, "file_existence") # <<>>
                  <=> not_scanned(ret.args[2]) # <<>>
            /\ issues_of_rule(issues, "column_existence") # <<>>
                  <=> absent_columns(ret.args[3]) # {}
            /\ issues_of_rule(issues, "sql_syntax") # <<>>
                  <=> \/ ~occurs_as_word(<<"S", "E", "L", "E", "C", "T">>, ret.args[1])
                      \/ ~occurs_as_word(<<"F", "R", "O", "M">>, ret.args[1])
                      \/ odd_quotes(ret.args[1])
            /\ issues_of_rule(issues, "type_compatibility") # <<>>
                  <=> joins_object_with_int64(ret.args[1], ret.args[2])
            /\ safety # <<>> <=> keywords_present(ret.args[1]) # {}
            /\ issues_of_rule(issues, "semantic_coherence") # <<>>
                  <=> judge_objects(ret.args[4])
            /\ \A i, j \in DOMAIN safety : i < j =>
                  \E m, n \in DOMAIN dangerous_keywords :
                      /\ m < n
                      /\ safety[i].message.fmt = dangerous_keywords[m].message
                      /\ safety[j].message.fmt = dangerous_keywords[n].message

\* A validation in which each of the six rules reports
C21_Witness ==
    /\ Validated
    /\ {ret.result.issues[i].rule : i \in DOMAIN ret.result.issues}
          = {"file_existence", "column_existence", "sql_syntax", "type_compatibility",
             "sql_safety", "semantic_coherence"}

\* C22: when a judge collaborator is configured and its call fails (exception,
\* timeout, malformed response), validate does not raise, returns the issues of
\* rules 1 to 5 unchanged with no additional issue, and does not call the judge a
\* second time: the issues are those of the same validation without a judge.
C22_JudgeFailureAddsNothing ==
    Validated /\ llm /\ ret.args[4].kind = "raise" =>
        /\ issues_of_rule(ret.result.issues, "semantic_coherence") = <<>>
        /\ \A i \in DOMAIN ret.result.issues : rule_rank(ret.result.issues[i].rule) \in 1..5
        /\ ret.result.issues
              = validate_execution_plan(kg, FALSE, ret.args[4], ret.args[1], ret.args[2],
                                        ret.args[3]).issues
        /\ ret.result.judge_calls = 1

\* A validation with a judge whose call failed, on a query that rules 3 and 5
\* object to: their issues are returned, nothing of the judge
C22_Witness ==
    /\ Validated
    /\ llm
    /\ ret.args[4].kind = "raise"
    /\ ret.result.judge_calls = 1
    /\ {ret.result.issues[i].rule : i \in DOMAIN ret.result.issues}
          = {"sql_syntax", "sql_safety"}

\* C25: every issue returned by validate has a severity in {critical, warning,
\* info} and a rule name that is one of the six rule names of the rule table:
\* file_existence, column_existence, sql_syntax, join_type_compatibility,
\* sql_safety, semantic_coherence.
C25_RuleNamesOfTheTable ==
    Validated =>
        \A i \in DOMAIN ret.result.issues :
            /\ ret.result.issues[i].severity \in {"critical", "warning", "info"}
            /\ ret.result.issues[i].rule
                  \in {"file_existence", "column_existence", "sql_syntax",
                       "join_type_compatibility", "sql_safety", "semantic_coherence"}

\* C28: every dataset named as a key of required_columns that is not a scanned
\* dataset makes validation fail (passed = False) with at least one critical issue
\* naming it, also when that dataset is not listed in required_files.
C28_UnknownColumnsDatasetFails ==
    Validated =>
        \A n \in DOMAIN ret.args[3] :
            ret.args[3][n].file \notin dataframe_names(dataframes) =>
                /\ ~ret.result.passed
                /\ \E i \in DOMAIN ret.result.issues :
                      /\ ret.result.issues[i].severity = "critical"
                      /\ ret.args[3][n].file \in Range(ret.result.issues[i].message.values)

----------------------------------------------------------------------------
(* Claims about the audit report, checked under SpecReport *)

lines_of(report, fmt) == {n \in DOMAIN report : report[n].fmt = fmt}

issue_lines(report) == lines_of(report, "   [{issue.rule}] {issue.message}")

suggestion_lines(report) == lines_of(report, "      Suggestion: {issue.suggestion}")

of_severity(issues, severity) == {i \in DOMAIN issues : issues[i].severity = severity}

\* C23: for every issue list, the audit report prints the three severity counts
\* (also when zero) and then, for each non-empty severity bucket (critical,
\* warning, info), one line '[rule] message' per issue followed by an indented
\* suggestion line whenever that issue has a suggestion; for an empty list it
\* prints three zero counts and no bucket body.
C23_ReportListsEveryIssueAndSuggestion ==
    ret.op = "generate_audit_report" =>
        LET issues == ret.args[1]
            report == ret.result
        IN  /\ report[2].values = <<Cardinality(of_severity(issues, "critical"))>>
            /\ report[3].values = <<Cardinality(of_severity(issues, "warning"))>>
            /\ report[4].values = <<Cardinality(of_severity(issues, "info"))>>
            /\ Len(report) - 4 - Cardinality(issue_lines(report))
                    - Cardinality(suggestion_lines(report))
                  = Cardinality({severity \in {"critical", "warning", "info"} :
                                    of_severity(issues, severity) # {}})
            /\ Cardinality(issue_lines(report)) = Len(issues)
            /\ Cardinality(suggestion_lines(report))
                  = Cardinality({i \in DOMAIN issues : issues[i].suggestion.present})
            /\ \A n \in suggestion_lines(report) : n - 1 \in issue_lines(report)
            /\ issues = <<>> => Len(report) = 4

----------------------------------------------------------------------------
(* Claims about two sessions, checked under SpecSessions *)

\* C24: two sessions each own an independent LivingKnowledgeGraph: under any
\* interleaving of scan, discovery, path queries and validation in the two
\* sessions, an operation in one session leaves the other session's metadata,
\* relationship list and graph unchanged. Every step either leaves the session
\* that is not running as it was, or hands over to it with both sessions intact.
C24_SessionsAreIndependent ==
    [][\/ other' = other
       \/ /\ kg' = other.kg
          /\ dataframes' = other.dataframes
          /\ other'.kg = kg
          /\ other'.dataframes = dataframes]_vars

\* One session has scanned and discovered, the other one has only scanned: each
\* has a graph of its own
C24_Witness ==
    /\ kg.relationships # <<>>
    /\ kg.edges # EmptyDict
    /\ other.kg.metadata # EmptyDict
    /\ other.kg.relationships = <<>>
    /\ other.kg.edges = EmptyDict

----------------------------------------------------------------------------
(* Claims about the handling of an intention, checked under SpecADOS *)

\* C1: in every handling of a user intention, the plan's SQL query is run by the
\* execution step only after validate_execution_plan has checked that same query:
\* every execution in the log comes after a validation of its query.
C1_ExecutedOnlyAfterValidated ==
    \A i \in DOMAIN log :
        log[i].event = "execute" =>
            \E j \in 1..(i - 1) :
                log[j].event = "validate" /\ log[j].sql_query = log[i].sql_query

\* The messages that the stages left, one per stage that has run
stage_of(message) ==
    CASE message \in {"Découverte", "Erreur discovery"} -> "discovery"
      [] message \in {"Plan SQL généré", "Erreur planning",
                      "Impossible de planifier sans découverte"} -> "planning"
      [] message \in {"Exécution réussie", "Erreur exécution",
                      "Impossible d'exécuter sans plan"} -> "execution"
      [] OTHER -> "none"

stages_run == [i \in DOMAIN intent.messages |-> stage_of(intent.messages[i])]

executions == {i \in DOMAIN log : log[i].event = "execute"}

\* C30: in compile_intent the stages run once each in the fixed order discovery,
\* planning, execution; when the discovery output cannot be parsed, planning
\* produces no plan and execution runs no SQL, and when the planning output cannot
\* be parsed, execution runs no SQL; in both cases the result reports
\* validation_passed = False and no execution result.
C30_StagesInOrder ==
    /\ intent.pc = "discovery" => stages_run = <<>>
    /\ intent.pc = "planning" => stages_run = <<"discovery">>
    /\ intent.pc = "execution" => stages_run = <<"discovery", "planning">>
    /\ intent.pc = "compiled" =>
          /\ stages_run = <<"discovery", "planning", "execution">>
          /\ Cardinality(executions) <= 1
          /\ intent.messages[1] = "Erreur discovery" =>
                /\ ~intent.discovery.present
                /\ ~intent.join_plan.present
                /\ intent.messages[2] = "Impossible de planifier sans découverte"
          /\ (intent.messages[1] = "Erreur discovery" \/ intent.messages[2] = "Erreur planning") =>
                /\ ~intent.join_plan.present
                /\ intent.messages[3] = "Impossible d'exécuter sans plan"
                /\ executions = {}
                /\ ~intent.validation_passed
                /\ ~intent.execution_result.present

\* compile_intent returning after a discovery that was parsed and a planning
\* answer that was not: no SQL was run
C30_Witness ==
    /\ intent.pc = "compiled"
    /\ intent.messages = <<"Découverte", "Erreur planning", "Impossible d'exécuter sans plan">>
    /\ intent.discovery.present
    /\ executions = {}
    /\ ~intent.validation_passed
    /\ ~intent.execution_result.present

====
